---- MODULE Spec2Model ----
(***************************************************************************)
(* Model of src/halftone.py (HalftoneInvocation): the request fields and   *)
(* their declared ranges, and invoke() statement by statement.             *)
(*                                                                         *)
(* Numbers.  Python floats are modelled in fixed point: a real v is the    *)
(* integer v * Scale.  Scale is a multiple of 255 * 4, so that sample/255  *)
(* and the constants 0.5 and 0.25 are exact.  The request parameters       *)
(* (spacing, angle) are held in units of 1/ParamScale so that 800.0001 is  *)
(* representable.  np.sin / np.cos are computed by the rational            *)
(* approximation of Bhaskara I, which is exact at 0, pi/2 and pi.          *)
(*                                                                         *)
(* Bitmaps.  A PIL image is [mode, size = <<width, height>>, px] with px   *)
(* indexed by <<x, y>>; a numpy array is [shape = <<rows, cols>>, data]    *)
(* with data indexed by <<row, col>>.                                      *)
(***************************************************************************)
EXTENDS Integers, Sequences, FiniteSets, TLC

\* ------------------------------------------------------------ bounds ----
\* sizes of the stored images: widths 0 .. MaxW, heights 0 .. MaxH
MaxW == 3
MaxH == 2
\* number of invocations
NumProcs == 3

\* ------------------------------------------------------------ state -----
VARIABLES
    pc,          \* position of each invocation
    request,     \* the fields of the invocation: image, spacing, angle
    image,       \* invoke's local `image`
    mode,        \* invoke's local `mode`
    field,       \* the value of evaluate_2d_func(...) on line 67
    halftoned,   \* invoke's local `halftoned`
    image_dto,   \* what images.create returned
    output,      \* the ImageOutput returned to the caller
    err,         \* the step whose exception left invoke
    calls,       \* number of calls of images.create made by each invocation
    created      \* the image service: bitmaps created so far, in order

vars == <<pc, request, image, mode, field, halftoned, image_dto, output, err, calls, created>>

\* ------------------------------------------------------ fixed point ----
\* Scale = 255 * 4 * 10: 1/255, 1/2 and 1/4 are exact
Scale == 255 * 40
\* spacing and angle are held in units of 10^-4
ParamScale == 100 * 100

Half == Scale \div 2
Quarter == Scale \div 4

Mul(a, b) == (a * b) \div Scale

\* sin(pi * t) for t in [0, 1] (fixed point), Bhaskara I:
\* sin(pi t) ~ 16 t (1 - t) / (5 - 4 t (1 - t))
SinHalfTurn(t) ==
    LET q == Mul(t, Scale - t)
    IN  (16 * q * Scale) \div (5 * Scale - 4 * q)

\* np.sin(np.pi * t), t in half turns (fixed point), any sign
SinPi(t) ==
    LET m == t % (2 * Scale)
    IN  IF m <= Scale THEN SinHalfTurn(m) ELSE 0 - SinHalfTurn(m - Scale)

\* np.cos(np.pi * t)
CosPi(t) == SinPi(t + Half)

\* ------------------------------------------------------------- PIL ------
Modes == {"L", "LA", "RGB", "RGBA", "CMYK"}

Bands(m) ==
    CASE m = "L" -> 1
      [] m = "LA" -> 2
      [] m = "RGB" -> 3
      [] m = "RGBA" -> 4
      [] m = "CMYK" -> 4

HasAlpha(m) == m \in {"LA", "RGBA"}

Coords(w, h) == (0 .. (w - 1)) \X (0 .. (h - 1))

\* a >> 16, a >> 8 on non-negative integers
Shr16(a) == a \div 65536
Shr8(a) == a \div 256

\* ITU-R 601-2 luma as PIL computes it
L24(r, g, b) == Shr16(r * 19595 + g * 38470 + b * 7471 + 32768)

MulDiv255(a, b) == Shr8(Shr8(a * b + 128) + (a * b + 128))

Clip8(v) == IF v < 0 THEN 0 ELSE IF v > 255 THEN 255 ELSE v

\* one pixel of image.convert("L")
PixelToL(m, s) ==
    CASE m = "L" -> s[1]
      [] m = "LA" -> s[1]
      [] m = "RGB" -> L24(s[1], s[2], s[3])
      [] m = "RGBA" -> L24(s[1], s[2], s[3])
      [] m = "CMYK" ->
            LET nk == 255 - s[4]
            IN  L24(Clip8(nk - MulDiv255(s[1], nk)),
                    Clip8(nk - MulDiv255(s[2], nk)),
                    Clip8(nk - MulDiv255(s[3], nk)))

\* image.convert("L")
ConvertToL(img) ==
    [mode |-> "L", size |-> img.size,
     px |-> [xy \in DOMAIN img.px |-> <<PixelToL(img.mode, img.px[xy])>>]]

\* halftoned.convert("RGB") / halftoned.convert("RGBA") of an "L" image
ConvertFromL(img, m) ==
    [mode |-> m, size |-> img.size,
     px |-> [xy \in DOMAIN img.px |->
               IF m = "RGBA"
               THEN <<img.px[xy][1], img.px[xy][1], img.px[xy][1], 255>>
               ELSE <<img.px[xy][1], img.px[xy][1], img.px[xy][1]>>]]

\* ----------------------------------------------------------- numpy ------
\* np.array(img) of an "L" image: shape (height, width), element [row, col]
NpArray(img) ==
    [shape |-> <<img.size[2], img.size[1]>>,
     data |-> [rc \in Coords(img.size[2], img.size[1]) |-> img.px[<<rc[2], rc[1]>>][1]]]

\* numpy broadcasting of one axis; -1 when the axes are incompatible
BroadcastDim(m, n) ==
    IF m = n THEN m ELSE IF m = 1 THEN n ELSE IF n = 1 THEN m ELSE 0 - 1

BroadcastOk(a, b) ==
    /\ BroadcastDim(a.shape[1], b.shape[1]) >= 0
    /\ BroadcastDim(a.shape[2], b.shape[2]) >= 0

At(a, rc) ==
    a.data[<<IF a.shape[1] = 1 THEN 0 ELSE rc[1], IF a.shape[2] = 1 THEN 0 ELSE rc[2]>>]

\* faulty variant: a >= b
Greater_or_equal(a, b) ==
    LET n0 == BroadcastDim(a.shape[1], b.shape[1])
        n1 == BroadcastDim(a.shape[2], b.shape[2])
    IN  [shape |-> <<n0, n1>>,
         data |-> [rc \in Coords(n0, n1) |-> At(a, rc) >= At(b, rc)]]

\* a > b, elementwise with broadcasting
Greater(a, b) ==
    LET n0 == BroadcastDim(a.shape[1], b.shape[1])
        n1 == BroadcastDim(a.shape[2], b.shape[2])
    IN  [shape |-> <<n0, n1>>,
         data |-> [rc \in Coords(n0, n1) |-> At(a, rc) > At(b, rc)]]

\* ---------------------------------------------- HalftoneInvocation ------
\* spacing: float = InputField(gt=0, le=800, default=8)
SpacingDefault == 8 * ParamScale
SpacingValid(spacing) == spacing > 0 /\ spacing <= 800 * ParamScale

\* angle: float = InputField(ge=0, lt=360, default=45)
AngleDefault == 45 * ParamScale
\* faulty variant: le=360 instead of lt=360
AngleValid_le(angle) == angle >= 0 /\ angle <= 360 * ParamScale

AngleValid(angle) == angle >= 0 /\ angle < 360 * ParamScale

\* faulty variant: the scaling by 255 is lost
ToUint8_unscaled(b) == (IF b THEN 1 ELSE 0) % 256

\* (arr * 255).astype("uint8"), one element of a boolean array
ToUint8(b) == (IF b THEN 255 ELSE 0) % 256

\* faulty variant: the array axes are taken as (width, height)
pil_from_array_untransposed(arr) ==
    [mode |-> "L", size |-> <<arr.shape[1], arr.shape[2]>>,
     px |-> [xy \in Coords(arr.shape[1], arr.shape[2]) |->
               <<ToUint8(arr.data[<<xy[1], xy[2]>>])>>]]

pil_from_array(arr) ==
    [mode |-> "L", size |-> <<arr.shape[2], arr.shape[1]>>,
     px |-> [xy \in Coords(arr.shape[2], arr.shape[1]) |->
               <<ToUint8(arr.data[<<xy[2], xy[1]>>])>>]]

array_from_pil(img) ==
    LET a == NpArray(img)
    IN  [shape |-> a.shape,
         data |-> [rc \in DOMAIN a.data |-> (a.data[rc] * Scale) \div 255]]

\* angle (degrees, in 1/ParamScale) as half turns in fixed point:
\* 2 * pi * angle / 360 = pi * (angle / 180)
AngleNum == Scale \div 600
AngleDen == (180 * ParamScale) \div 600
AngleRad(angle) == (angle * AngleNum) \div AngleDen

\* faulty variant: sin and cos exchanged
rotate_swapped(x, y, angle) ==
    LET angle_rad == AngleRad(angle)
        sin == CosPi(angle_rad)
        cos == SinPi(angle_rad)
    IN  <<Mul(x, cos) - Mul(y, sin), Mul(x, sin) + Mul(y, cos)>>

rotate(x, y, angle) ==
    LET angle_rad == AngleRad(angle)
        sin == SinPi(angle_rad)
        cos == CosPi(angle_rad)
    IN  <<Mul(x, cos) - Mul(y, sin), Mul(x, sin) + Mul(y, cos)>>

PixelDiv(spacing) == (2 * Scale * ParamScale) \div spacing

\* euclid_dot(spacing, angle): the closure it returns, as the values the
\* closure captures
euclid_dot(spacing, angle) == [pixel_div |-> PixelDiv(spacing), angle |-> angle]

\* faulty variant: the screen is offset by a value drawn from state that
\* other invocations write (the number of bitmaps created so far)
func_shared(fn, x, y) ==
    LET r == rotate(x * fn.pixel_div, y * fn.pixel_div, fn.angle)
    IN  Half - Mul(Quarter, SinPi(r[1] + Half) + CosPi(r[2])) + Len(created) * Scale

\* func(x, y) of the closure fn, lines 55-57
func(fn, x, y) ==
    LET r == rotate(x * fn.pixel_div, y * fn.pixel_div, fn.angle)
    IN  Half - Mul(Quarter, SinPi(r[1] + Half) + CosPi(r[2]))

evaluate_2d_func(img_shape, fn) ==
    LET w == img_shape[1]
        h == img_shape[2]
    IN  [shape |-> <<w, h>>,
         data |-> [ij \in Coords(w, h) |-> func(fn, ij[1], ij[2])]]

\* ------------------------------------------------- the image service ----
\* Names of the images the service holds when the invocations start: a name
\* describes the bitmap it resolves to.
Patterns == {"black", "white", "mixed"}

Palette(m) ==
    CASE m = "L" -> <<(<<0>>), (<<255>>), (<<128>>)>>
      [] m = "LA" -> <<(<<0, 0>>), (<<255, 255>>), (<<128, 100>>)>>
      [] m = "RGB" -> <<(<<0, 0, 0>>), (<<255, 255, 255>>), (<<200, 30, 90>>)>>
      [] m = "RGBA" -> <<(<<0, 0, 0, 0>>), (<<255, 255, 255, 10>>), (<<200, 30, 90, 128>>)>>
      [] m = "CMYK" -> <<(<<0, 0, 0, 255>>), (<<0, 0, 0, 0>>), (<<50, 100, 0, 20>>)>>

PatternPixel(m, pat, x, y) ==
    CASE pat = "black" -> Palette(m)[1]
      [] pat = "white" -> Palette(m)[2]
      [] pat = "mixed" -> Palette(m)[1 + ((x + 2 * y) % 3)]

None == [none |-> TRUE]
Missing == [missing |-> TRUE]

StoredNames ==
    [mode : Modes, w : 0 .. MaxW, h : 0 .. MaxH, pat : Patterns]

Resolves(name) == name # None /\ name # Missing

\* context.services.images.get_pil_image(image_name)
get_pil_image(name) ==
    [mode |-> name.mode, size |-> <<name.w, name.h>>,
     px |-> [xy \in Coords(name.w, name.h) |->
               PatternPixel(name.mode, name.pat, xy[1], xy[2])]]

\* --------------------------------------------------------- requests -----
Procs == 1 .. NumProcs

Unset == [unset |-> TRUE]

SpacingInputs == {0, 2 * ParamScale, SpacingDefault, 800 * ParamScale, 800 * ParamScale + 1}
AngleInputs == {0 - ParamScale, 0, 30 * ParamScale, AngleDefault, 360 * ParamScale}

Requests ==
    [image : StoredNames \cup {None, Missing}, spacing : SpacingInputs, angle : AngleInputs]

\* the requests of the interleaved runs
ConcRequests ==
    {[image |-> [mode |-> "RGB", w |-> 2, h |-> 2, pat |-> "mixed"],
      spacing |-> 2 * ParamScale, angle |-> 30 * ParamScale],
     [image |-> [mode |-> "RGBA", w |-> 2, h |-> 1, pat |-> "white"],
      spacing |-> SpacingDefault, angle |-> AngleDefault]}

InitLocals ==
    /\ pc = [p \in Procs |-> "new"]
    /\ image = [p \in Procs |-> Unset]
    /\ mode = [p \in Procs |-> "unset"]
    /\ field = [p \in Procs |-> Unset]
    /\ halftoned = [p \in Procs |-> Unset]
    /\ image_dto = [p \in Procs |-> Unset]
    /\ output = [p \in Procs |-> Unset]
    /\ err = [p \in Procs |-> "none"]
    /\ calls = [p \in Procs |-> 0]
    /\ created = <<>>

\* one invocation, any request; the other invocations hold the defaults and
\* never run
Init ==
    /\ InitLocals
    /\ \E r \in Requests :
         request = [p \in Procs |->
                      IF p = 1 THEN r
                      ELSE [image |-> None, spacing |-> SpacingDefault, angle |-> AngleDefault]]

\* NumProcs invocations running interleaved
InitConc ==
    /\ InitLocals
    /\ request \in [Procs -> ConcRequests]

Raise(p, step) ==
    /\ pc' = [pc EXCEPT ![p] = "error"]
    /\ err' = [err EXCEPT ![p] = step]

ZeroSized(size) == size[1] = 0 \/ size[2] = 0

\* what a library call may do with a bitmap or array that has no pixels:
\* depending on the library version it raises or returns an empty value
MayRaise(size) == IF ZeroSized(size) THEN BOOLEAN ELSE {FALSE}

\* lines 27-29: the declared ranges are checked when the invocation is built
Validate(p) ==
    /\ pc[p] = "new"
    /\ IF SpacingValid(request[p].spacing) /\ AngleValid(request[p].angle)
       THEN pc' = [pc EXCEPT ![p] = "get_pil_image"]
       ELSE pc' = [pc EXCEPT ![p] = "rejected"]
    /\ UNCHANGED <<request, image, mode, field, halftoned, image_dto, output, err, calls, created>>

\* lines 62-63
GetPilImage(p) ==
    /\ pc[p] = "get_pil_image"
    /\ IF Resolves(request[p].image)
       THEN /\ image' = [image EXCEPT ![p] = get_pil_image(request[p].image)]
            /\ mode' = [mode EXCEPT ![p] = request[p].image.mode]
            /\ pc' = [pc EXCEPT ![p] = "convert_l"]
            /\ err' = err
       ELSE /\ Raise(p, "get_pil_image")
            /\ UNCHANGED <<image, mode>>
    /\ UNCHANGED <<request, field, halftoned, image_dto, output, calls, created>>

\* line 65
ConvertL(p) ==
    /\ pc[p] = "convert_l"
    /\ image' = [image EXCEPT ![p] = ConvertToL(image[p])]
    /\ pc' = [pc EXCEPT ![p] = "array_from_pil"]
    /\ UNCHANGED <<request, mode, field, halftoned, image_dto, output, err, calls, created>>

\* line 66
ArrayFromPil(p) ==
    /\ pc[p] = "array_from_pil"
    /\ \E raises \in MayRaise(image[p].size) :
         IF raises
         THEN Raise(p, "array_from_pil") /\ image' = image
         ELSE /\ image' = [image EXCEPT ![p] = array_from_pil(image[p])]
              /\ pc' = [pc EXCEPT ![p] = "threshold"]
              /\ err' = err
    /\ UNCHANGED <<request, mode, field, halftoned, image_dto, output, calls, created>>

\* line 67
Threshold(p) ==
    /\ pc[p] = "threshold"
    /\ LET screen == evaluate_2d_func(image[p].shape,
                                      euclid_dot(request[p].spacing, request[p].angle))
       IN  IF BroadcastOk(image[p], screen)
           THEN /\ field' = [field EXCEPT ![p] = screen]
                /\ halftoned' = [halftoned EXCEPT ![p] = Greater(image[p], screen)]
                /\ pc' = [pc EXCEPT ![p] = "pil_from_array"]
                /\ err' = err
           ELSE /\ Raise(p, "threshold")
                /\ UNCHANGED <<field, halftoned>>
    /\ UNCHANGED <<request, image, mode, image_dto, output, calls, created>>

\* line 68
PilFromArray(p) ==
    /\ pc[p] = "pil_from_array"
    /\ \E raises \in MayRaise(halftoned[p].shape) :
         IF raises
         THEN Raise(p, "pil_from_array") /\ halftoned' = halftoned
         ELSE /\ halftoned' = [halftoned EXCEPT ![p] = pil_from_array(halftoned[p])]
              /\ pc' = [pc EXCEPT ![p] = "convert_mode"]
              /\ err' = err
    /\ UNCHANGED <<request, image, mode, field, image_dto, output, calls, created>>

\* faulty variant: the original mode is ignored
ConvertMode_rgb(p) ==
    /\ pc[p] = "convert_mode"
    /\ image' = [image EXCEPT ![p] = ConvertFromL(halftoned[p], "RGB")]
    /\ pc' = [pc EXCEPT ![p] = "create"]
    /\ UNCHANGED <<request, mode, field, halftoned, image_dto, output, err, calls, created>>

\* lines 70-73
ConvertMode(p) ==
    /\ pc[p] = "convert_mode"
    /\ IF mode[p] = "RGBA"
       THEN image' = [image EXCEPT ![p] = ConvertFromL(halftoned[p], "RGBA")]
       ELSE image' = [image EXCEPT ![p] = ConvertFromL(halftoned[p], "RGB")]
    /\ pc' = [pc EXCEPT ![p] = "create"]
    /\ UNCHANGED <<request, mode, field, halftoned, image_dto, output, err, calls, created>>

\* faulty variant: the bitmap is stored again after it was stored
Create_again(p) ==
    /\ pc[p] = "create"
    /\ calls[p] < 2
    /\ calls' = [calls EXCEPT ![p] = @ + 1]
    /\ created' = Append(created, [image |-> image[p], node_id |-> p])
    /\ image_dto' = [image_dto EXCEPT ![p] = [image_name |-> Len(created) + 1]]
    /\ pc' = [pc EXCEPT ![p] = IF calls[p] = 0 THEN "create" ELSE "return"]
    /\ UNCHANGED <<request, image, mode, field, halftoned, output, err>>

\* lines 75-84
Create(p) ==
    /\ pc[p] = "create"
    /\ calls' = [calls EXCEPT ![p] = @ + 1]
    /\ \E raises \in MayRaise(image[p].size) :
         IF raises
         THEN Raise(p, "create") /\ UNCHANGED <<created, image_dto>>
         ELSE /\ created' = Append(created, [image |-> image[p], node_id |-> p])
              /\ image_dto' = [image_dto EXCEPT ![p] = [image_name |-> Len(created) + 1]]
              /\ pc' = [pc EXCEPT ![p] = "return"]
              /\ err' = err
    /\ UNCHANGED <<request, image, mode, field, halftoned, output>>

\* lines 86-90
Return(p) ==
    /\ pc[p] = "return"
    /\ output' = [output EXCEPT ![p] =
                    [image |-> image_dto[p].image_name,
                     width |-> image[p].size[1],
                     height |-> image[p].size[2]]]
    /\ pc' = [pc EXCEPT ![p] = "done"]
    /\ UNCHANGED <<request, image, mode, field, halftoned, image_dto, err, calls, created>>

Step(p) ==
    \/ Validate(p)
    \/ GetPilImage(p)
    \/ ConvertL(p)
    \/ ArrayFromPil(p)
    \/ Threshold(p)
    \/ PilFromArray(p)
    \/ ConvertMode(p)
    \/ Create(p)
    \/ Return(p)

Next == Step(1)

Spec == Init /\ [][Next]_vars

NextConc == \E p \in Procs : Step(p)

SpecConc == InitConc /\ [][NextConc]_vars

\* ------------------------------------------------------- properties ----
Rank(l) ==
    CASE l = "new" -> 0
      [] l = "get_pil_image" -> 1
      [] l = "convert_l" -> 2
      [] l = "array_from_pil" -> 3
      [] l = "threshold" -> 4
      [] l = "pil_from_array" -> 5
      [] l = "convert_mode" -> 6
      [] l = "create" -> 7
      [] l = "return" -> 8
      [] l = "done" -> 9
      [] l = "rejected" -> 10
      [] l = "error" -> 10

\* the ranges of the parameter schema, spelled out
InRange(r) ==
    /\ 0 < r.spacing /\ r.spacing <= 800 * ParamScale
    /\ 0 <= r.angle /\ r.angle < 360 * ParamScale

\* the request names a stored bitmap with at least one pixel
Decodable(r) == Resolves(r.image)
NonEmpty(r) == Decodable(r) /\ r.image.w >= 1 /\ r.image.h >= 1

\* the bitmaps invocation p handed to images.create
CreatedBy(p) == {i \in 1 .. Len(created) : created[i].node_id = p}

\* normalized intensity of the input pixel at column x, row y: the 8-bit
\* luminance sample divided by 255
Intensity(p, x, y) ==
    (PixelToL(request[p].image.mode, get_pil_image(request[p].image).px[<<x, y>>]) * Scale) \div 255

\* the screen value the code compared the pixel at column x, row y against
ScreenAt(p, x, y) == field[p].data[<<y, x>>]

InputCoords(p) == Coords(request[p].image.w, request[p].image.h)

\* C1: for a decodable image of width W >= 1 and height H >= 1 and valid
\* spacing and angle, no step of invoke fails, every bitmap handed to the
\* storage collaborator is W x H, and the returned output reports W and H.
C1_ShapePreserved ==
    \A p \in Procs :
      (NonEmpty(request[p]) /\ InRange(request[p])) =>
        /\ pc[p] \notin {"error", "rejected"}
        /\ \A i \in CreatedBy(p) :
             created[i].image.size = <<request[p].image.w, request[p].image.h>>
        /\ pc[p] = "done" =>
             /\ output[p].width = request[p].image.w
             /\ output[p].height = request[p].image.h

C1_Witness ==
    /\ pc[1] = "done"
    /\ request[1].image.w = 3 /\ request[1].image.h = 2
    /\ output[1].width = 3 /\ output[1].height = 2
    /\ created[1].image.size = <<3, 2>>

\* C2: two invocations with the same (image, spacing, angle) that stand at
\* the same statement hold identical locals (intensity, screen, mask, output
\* bitmap), and the bitmaps they handed to the storage collaborator are
\* identical, however their steps and those of other invocations interleave.
C2_Deterministic ==
    \A p, q \in Procs :
      request[p] = request[q] =>
        /\ (pc[p] = pc[q] /\ err[p] = err[q]) =>
             /\ image[p] = image[q]
             /\ mode[p] = mode[q]
             /\ field[p] = field[q]
             /\ halftoned[p] = halftoned[q]
        /\ \A i \in CreatedBy(p), j \in CreatedBy(q) :
             created[i].image = created[j].image

C2_Witness ==
    /\ request[1] = request[2]
    /\ request[3] # request[1]
    /\ Len(created) = 3
    /\ created[1].node_id = 1 /\ created[2].node_id = 3 /\ created[3].node_id = 2
    /\ created[1].image = created[3].image
    /\ \E xy \in DOMAIN created[1].image.px : created[1].image.px[xy][1] = 255
    /\ pc[1] = "done" /\ pc[2] = "done"

\* C3: an invocation leaves validation for the engine only when
\* 0 < spacing <= 800 and 0 <= angle < 360, every request in range is
\* accepted (spacing = 800 and angle = 0 included), and a rejected one ran
\* no engine step: nothing decoded, no screen, nothing stored.
C3_BoundaryValidation ==
    \A p \in Procs :
      /\ pc[p] \notin {"new", "rejected"} => InRange(request[p])
      /\ pc[p] = "rejected" =>
           /\ ~InRange(request[p])
           /\ image[p] = Unset /\ field[p] = Unset /\ halftoned[p] = Unset
           /\ calls[p] = 0 /\ CreatedBy(p) = {} /\ output[p] = Unset
      /\ (request[p].spacing \in {0, 800 * ParamScale + 1}
          \/ request[p].angle \in {0 - ParamScale, 360 * ParamScale}) =>
           pc[p] \in {"new", "rejected"}

C3_Witness ==
    /\ pc[1] = "rejected"
    /\ request[1].spacing = 800 * ParamScale + 1
    /\ request[1].angle = 0

\* C4: at every pixel the mask is true exactly when the normalized intensity
\* of the input pixel is strictly greater than the screen value held for
\* that pixel; on equality the mask is false.
C4_StrictThreshold ==
    \A p \in Procs :
      (pc[p] = "pil_from_array" /\ NonEmpty(request[p])) =>
        /\ halftoned[p].shape = <<request[p].image.h, request[p].image.w>>
        /\ \A xy \in InputCoords(p) :
             halftoned[p].data[<<xy[2], xy[1]>>] =
               (Intensity(p, xy[1], xy[2]) > ScreenAt(p, xy[1], xy[2]))

C4_Witness ==
    /\ pc[1] = "pil_from_array"
    /\ NonEmpty(request[1])
    /\ \E xy \in InputCoords(1) :
         /\ Intensity(1, xy[1], xy[2]) = ScreenAt(1, xy[1], xy[2])
         /\ Intensity(1, xy[1], xy[2]) = Scale
         /\ halftoned[1].data[<<xy[2], xy[1]>>] = FALSE
    /\ \E xy \in InputCoords(1) : halftoned[1].data[<<xy[2], xy[1]>>] = TRUE

\* C5: the output bitmap is in the original mode when that mode has four
\* channels and carries alpha (RGBA), and in RGB for every other original
\* mode (RGB, L, LA, CMYK).
C5_OutputMode ==
    \A p \in Procs :
      (pc[p] \in {"create", "return", "done"} /\ Decodable(request[p])) =>
        LET orig == request[p].image.mode
            expected == IF Bands(orig) = 4 /\ HasAlpha(orig) THEN orig ELSE "RGB"
        IN  /\ image[p].mode = expected
            /\ \A xy \in DOMAIN image[p].px : Len(image[p].px[xy]) = Bands(expected)
            /\ \A i \in CreatedBy(p) : created[i].image.mode = expected

C5_Witness ==
    /\ pc[1] = "done"
    /\ request[1].image.mode = "RGBA"
    /\ created[1].image.mode = "RGBA"
    /\ \E xy \in DOMAIN created[1].image.px : Len(created[1].image.px[xy]) = 4

\* C6 (as claimed): when the decoded bitmap has zero width or zero height the
\* invocation goes no further than the normalization step, which raises.
C6_ZeroSizedRejected ==
    \A p \in Procs :
      (/\ Decodable(request[p])
       /\ ZeroSized(<<request[p].image.w, request[p].image.h>>)
       /\ pc[p] \notin {"new", "get_pil_image", "rejected"}) =>
        \/ pc[p] \in {"convert_l", "array_from_pil"}
        \/ /\ pc[p] = "error"
           /\ err[p] = "array_from_pil"
           /\ field[p] = Unset
           /\ calls[p] = 0

\* C7: images.create is called at most once per invocation, and only from
\* the statement that follows reconstruction, with no error recorded and
\* decode, normalization, thresholding and reconstruction done; an
\* invocation whose step failed stays failed, has stored nothing and returns
\* no output; no invocation ever goes back to an earlier statement.
C7_StoreLast ==
    [][\A p \in Procs :
         /\ calls'[p] <= 1
         /\ calls'[p] > calls[p] =>
              /\ pc[p] = "create" /\ err[p] = "none"
              /\ field[p] # Unset
              /\ image[p] = ConvertFromL(halftoned[p], image[p].mode)
         /\ Cardinality({i \in 1 .. Len(created') : created'[i].node_id = p}) <= calls'[p]
         /\ pc[p] # pc'[p] => Rank(pc'[p]) > Rank(pc[p])
         /\ pc[p] \in {"error", "rejected"} => pc'[p] = pc[p]
         /\ (pc'[p] = "error") = (err'[p] # "none")
         /\ (pc'[p] = "error" /\ err'[p] # "create") =>
              /\ calls'[p] = 0
              /\ {i \in 1 .. Len(created') : created'[i].node_id = p} = {}
         /\ pc'[p] = "error" => output'[p] = Unset /\ image_dto'[p] = Unset
         /\ output'[p] # Unset => pc'[p] = "done" /\ calls'[p] = 1
      ]_vars

C7_Witness ==
    /\ pc[1] = "error"
    /\ err[1] = "get_pil_image"
    /\ request[1].image = Missing
    /\ calls[1] = 0 /\ created = <<>> /\ output[1] = Unset

\* C8 (as claimed): the screen value compared against the pixel at column c,
\* row r is the dot function at x = c, y = r.
C8_ScreenAligned ==
    \A p \in Procs :
      (pc[p] = "pil_from_array" /\ NonEmpty(request[p])) =>
        \A xy \in InputCoords(p) :
          ScreenAt(p, xy[1], xy[2]) =
            func(euclid_dot(request[p].spacing, request[p].angle), xy[1], xy[2])

\* C9: in the output bitmap every colour channel of a pixel is 255 where the
\* mask is true and 0 where it is false, and the alpha channel of an RGBA
\* output is 255 at every pixel, whatever the alpha of the input was.
C9_OutputPixels ==
    \A p \in Procs :
      (pc[p] \in {"create", "return", "done"} /\ NonEmpty(request[p])) =>
        /\ DOMAIN image[p].px = InputCoords(p)
        /\ \A xy \in InputCoords(p) :
             LET v == IF Intensity(p, xy[1], xy[2]) > ScreenAt(p, xy[1], xy[2])
                      THEN 255 ELSE 0
                 s == image[p].px[xy]
             IN  /\ s[1] = v /\ s[2] = v /\ s[3] = v
                 /\ image[p].mode = "RGBA" => s[4] = 255

C9_Witness ==
    /\ pc[1] = "done"
    /\ request[1].image.mode = "RGBA"
    /\ request[1].image.pat = "mixed"
    /\ \E xy \in InputCoords(1) :
         /\ get_pil_image(request[1].image).px[xy][4] = 128
         /\ created[1].image.px[xy] = <<255, 255, 255, 255>>
    /\ \E xy \in InputCoords(1) : created[1].image.px[xy] = <<0, 0, 0, 255>>

\* C10: with angle = 0, rotate returns its (scaled) arguments unchanged, and
\* the screen is 0.5 - 0.25 * (sin(pi * (x * pixel_div + 0.5)) +
\* cos(pi * y * pixel_div)) with x the first and y the second argument of
\* the dot function.
C10_AngleZero ==
    \A p \in Procs :
      (pc[p] = "pil_from_array" /\ request[p].angle = 0) =>
        LET pixel_div == PixelDiv(request[p].spacing)
        IN  \A ij \in DOMAIN field[p].data :
              /\ rotate(ij[1] * pixel_div, ij[2] * pixel_div, request[p].angle)
                   = <<ij[1] * pixel_div, ij[2] * pixel_div>>
              /\ field[p].data[ij] =
                   Half - Mul(Quarter, SinPi(ij[1] * pixel_div + Half)
                                         + CosPi(ij[2] * pixel_div))

C10_Witness ==
    /\ pc[1] = "pil_from_array"
    /\ request[1].angle = 0
    /\ request[1].spacing = SpacingDefault
    /\ <<1, 2>> \in DOMAIN field[1].data
    /\ field[1].data[<<1, 2>>] # field[1].data[<<0, 0>>]

====
